---------------------------- MODULE Spec2Model ----------------------------
(***************************************************************************)
(* A model of src/ai_agent.py: the AIAgent class with its generate ->      *)
(* sanitize -> approve -> execute -> retry loop (AIAgent.run), the command *)
(* parser inside _get_ai_commands, the denylist sanitizer                  *)
(* _sanitize_commands and the sequential executor _execute_commands.       *)
(*                                                                         *)
(* Python strings are TLA+ strings: TLC evaluates Len, \o and SubSeq on    *)
(* them, so a character of s is SubSeq(s, i, i).                           *)
(***************************************************************************)
EXTENDS Integers, Sequences, FiniteSets

VARIABLES
    pc,            \* position of run(): GENERATE, AWAIT_APPROVAL, EXECUTE,
                   \* RUNNING, AWAIT_OUTCOME, AWAIT_FEEDBACK, DONE, FAILED
                   \* (CALL / RETURN in the specifications of one function)
    initial_task,  \* run's parameter
    task,          \* run's local task
    attempt,       \* run's local attempt
    conversation,  \* self.conversation
    window,        \* self.conversation[-5:] of the latest generation request
    genOutcome,    \* latest generate_content call: "none", "ok", "error"
    ai_response,   \* response.text of the latest successful call
    candidates,    \* the list built by the parsing loop (lines 64-68)
    commands,      \* run's local commands
    approval,      \* run's local approval (lower-cased input)
    success,       \* run's local success (lower-cased input)
    feedback,      \* run's local feedback
    cmdIdx,        \* index of _execute_commands' for loop in commands
    alive,         \* indices of the commands whose child process is alive
    outcome,       \* how the latest subprocess.run ended
    invoked,       \* commands handed to subprocess.run by the current call
    printed,       \* status messages printed by run, in order
    genRequests,   \* history: generate_content calls made
    genFailures,   \* history: generate_content calls that raised
    prompts,       \* history: approval prompts shown
    execCalls,     \* history: calls of _execute_commands
    redos          \* history: redo decisions taken

vars == <<pc, initial_task, task, attempt, conversation, window, genOutcome,
          ai_response, candidates, commands, approval, success, feedback,
          cmdIdx, alive, outcome, invoked, printed, genRequests, genFailures,
          prompts, execCalls, redos>>

-----------------------------------------------------------------------------
(* Bounds of the model *)

\* redo decisions explored in one run (the code allows any number)
MaxRedo == 2
\* most pieces (SanitizeTokens) in a command of the enumerated sanitizer inputs
MaxCmdLen == 2
\* longest command list of the enumerated sanitizer inputs
MaxCmds == 2
\* longest raw generation text of the enumerated parser inputs
MaxRawLen == 4

-----------------------------------------------------------------------------
(* Strings *)

Char(s, i) == SubSeq(s, i, i)

Min(a, b) == IF a < b THEN a ELSE b

Max(a, b) == IF a > b THEN a ELSE b

\* str.startswith(p)
StartsWith(s, p) == Len(s) >= Len(p) /\ SubSeq(s, 1, Len(p)) = p

\* p in s
Contains(s, p) ==
    \E i \in 1..(Len(s) - Len(p) + 1) : SubSeq(s, i, i + Len(p) - 1) = p

\* the characters str.strip() removes (ASCII whitespace)
Whitespace == {" ", "\t", "\n", "\r", "\f"}

\* the characters of the class [a-zA-Z0-9]
Alnum ==
    {"a", "b", "c", "d", "e", "f", "g", "h", "i", "j", "k", "l", "m",
     "n", "o", "p", "q", "r", "s", "t", "u", "v", "w", "x", "y", "z",
     "A", "B", "C", "D", "E", "F", "G", "H", "I", "J", "K", "L", "M",
     "N", "O", "P", "Q", "R", "S", "T", "U", "V", "W", "X", "Y", "Z",
     "0", "1", "2", "3", "4", "5", "6", "7", "8", "9"}

\* str.strip()
Strip(s) ==
    LET keep == {i \in 1..Len(s) : Char(s, i) \notin Whitespace}
    IN  IF keep = {} THEN ""
        ELSE LET lo == CHOOSE i \in keep : \A j \in keep : i <= j
                 hi == CHOOSE i \in keep : \A j \in keep : j <= i
             IN  SubSeq(s, lo, hi)

\* str.split('\n')
RECURSIVE SplitLines(_)
SplitLines(s) ==
    LET nl == {i \in 1..Len(s) : Char(s, i) = "\n"}
    IN  IF nl = {} THEN <<s>>
        ELSE LET k == CHOOSE i \in nl : \A j \in nl : i <= j
             IN  <<SubSeq(s, 1, k - 1)>> \o SplitLines(SubSeq(s, k + 1, Len(s)))

\* all strings over alphabet of length at most n
RECURSIVE StringsUpTo(_, _)
StringsUpTo(alphabet, n) ==
    IF n = 0 THEN {""}
    ELSE LET shorter == StringsUpTo(alphabet, n - 1)
         IN  shorter \cup {s \o c : s \in shorter, c \in alphabet}

\* all sequences over S of length at most n
RECURSIVE SeqsUpTo(_, _)
SeqsUpTo(S, n) ==
    IF n = 0 THEN {<<>>}
    ELSE LET shorter == SeqsUpTo(S, n - 1)
         IN  shorter \cup {Append(q, x) : q \in shorter, x \in S}

-----------------------------------------------------------------------------
(* AIAgent.__init__ and _initialize_ai *)

\* self.blocked_commands
blocked_commands == {"rm", "shutdown", "reboot", ":(){", "mkfs", "dd if=", ">:"}

\* the system prompt (its text is abbreviated; it is one string, the first turn)
system_prompt == "Generate ONLY valid shell commands ... ONE COMMAND PER LINE"

-----------------------------------------------------------------------------
(* AIAgent._sanitize_commands *)

RemoveCommentLast(cmd) ==
    LET hs == {i \in 1..Len(cmd) : Char(cmd, i) = "#"}
    IN  IF hs = {} THEN cmd
        ELSE SubSeq(cmd, 1, (CHOOSE i \in hs : \A j \in hs : j <= i) - 1)

\* re.sub(r'#.*$', '', cmd): '.' matches no newline and '$' matches at the end
\* of the string or before a newline that ends it, so the match starts at the
\* first '#' of the last line (the newline that ends the string apart).
RemoveComment(cmd) ==
    LET n     == Len(cmd)
        tail  == IF n > 0 /\ Char(cmd, n) = "\n" THEN "\n" ELSE ""
        m     == n - Len(tail)
        nls   == {i \in 1..m : Char(cmd, i) = "\n"}
        start == IF nls = {} THEN 1
                 ELSE 1 + CHOOSE i \in nls : \A j \in nls : j <= i
        hs    == {i \in start..m : Char(cmd, i) = "#"}
    IN  IF hs = {} THEN cmd
        ELSE LET h == CHOOSE i \in hs : \A j \in hs : i <= j
             IN  SubSeq(cmd, 1, h - 1) \o tail

\* clean_cmd of line 41
CleanCmd(cmd) == Strip(RemoveComment(cmd))

IsBlockedNever(clean_cmd) == FALSE

\* any(bc in clean_cmd for bc in self.blocked_commands)
IsBlocked(clean_cmd) == \E bc \in blocked_commands : Contains(clean_cmd, bc)

RECURSIVE _sanitize_commands(_)
_sanitize_commands(cmds) ==
    IF cmds = <<>> THEN <<>>
    ELSE LET clean_cmd == CleanCmd(Head(cmds))
             rest      == _sanitize_commands(Tail(cmds))
         IN  IF clean_cmd = "" THEN rest
             ELSE IF IsBlocked(clean_cmd) THEN rest
             ELSE <<clean_cmd>> \o rest

-----------------------------------------------------------------------------
(* The parsing loop of AIAgent._get_ai_commands *)

\* re.sub(r'^[^a-zA-Z0-9]*', '', line)
StripLeading(line) ==
    LET an == {i \in 1..Len(line) : Char(line, i) \in Alnum}
    IN  IF an = {} THEN ""
        ELSE SubSeq(line, CHOOSE i \in an : \A j \in an : i <= j, Len(line))

\* line.startswith(('#', '//', '/*'))
IsCommentLine(line) ==
    StartsWith(line, "#") \/ StartsWith(line, "//") \/ StartsWith(line, "/*")

RECURSIVE ParseLineSeq(_)
ParseLineSeq(lines) ==
    IF lines = <<>> THEN <<>>
    ELSE LET line == StripLeading(Head(lines))
             rest == ParseLineSeq(Tail(lines))
         IN  IF line # "" /\ ~IsCommentLine(line)
             THEN <<Strip(line)>> \o rest
             ELSE rest

\* lines 64-68
ParseResponse(text) == ParseLineSeq(SplitLines(text))

-----------------------------------------------------------------------------
(* Inputs of a run: what the human types and what the service returns *)

\* task descriptions given on the command line
Tasks == {"list files", "free disk space"}

\* texts the generation service returns
RawTexts ==
    {"ls -la  # list files\nrm -rf /  \necho hello",
     "1. echo foo\n# a comment\necho bar",
     "rm -rf /"}

\* what the human types at "Approve execution? [Y/N/R]"
ApprovalInputs == {"y", "Y", "r", "R", "n", "", "yes"}

\* what the human types at "Did this solve the task? [Y/N]"
SuccessInputs == {"y", "Y", "n", ""}

\* what the human types at "What went wrong?"
Feedbacks == {"permission denied", ""}

\* how one subprocess.run call of _execute_commands ends once the child runs
RunOutcomes == {"completed", "nonzero", "timeout", "crashed"}

\* str.lower()
UpperCase == "ABCDEFGHIJKLMNOPQRSTUVWXYZ"

LowerCase == "abcdefghijklmnopqrstuvwxyz"

LowerChar(c) ==
    LET at == {i \in 1..Len(UpperCase) : Char(UpperCase, i) = c}
    IN  IF at = {} THEN c ELSE Char(LowerCase, CHOOSE i \in at : TRUE)

RECURSIVE Lower(_)
Lower(s) ==
    IF s = "" THEN "" ELSE LowerChar(Char(s, 1)) \o Lower(SubSeq(s, 2, Len(s)))

-----------------------------------------------------------------------------
(* AIAgent.run and the calls it makes *)

\* the f-string of line 57
TaskTurn(t) == "User task: " \o t

GeneratedTurnMislabelled(text) == "User task: " \o text

\* the f-string of line 70
GeneratedTurn(text) == "Generated commands:\n" \o text

WindowAll(conv) == conv

WindowLastFour(conv) == SubSeq(conv, Max(1, Len(conv) - 4 + 1), Len(conv))

\* self.conversation[-5:]
Window(conv) == SubSeq(conv, Max(1, Len(conv) - 5 + 1), Len(conv))

LoopCondOffByOne(a) == a <= 4

\* while attempt <= 3
LoopCond(a) == a <= 3

FoldTaskNested(fb, initial) ==
    "Previous failure: " \o fb \o ". Original task: " \o task

\* the f-string of line 165
FoldTask(fb, initial) ==
    "Previous failure: " \o fb \o ". Original task: " \o initial

Init ==
    /\ pc = "GENERATE"
    /\ initial_task \in Tasks
    /\ task = initial_task
    /\ attempt = 1
    /\ conversation = <<system_prompt>>
    /\ window = <<>>
    /\ genOutcome = "none"
    /\ ai_response = ""
    /\ candidates = <<>>
    /\ commands = <<>>
    /\ approval = ""
    /\ success = ""
    /\ feedback = ""
    /\ cmdIdx = 0
    /\ alive = {}
    /\ outcome = "none"
    /\ invoked = <<>>
    /\ printed = <<>>
    /\ genRequests = 0
    /\ genFailures = 0
    /\ prompts = 0
    /\ execCalls = 0
    /\ redos = 0

AfterGenerateNoCount(cmds) ==
    IF cmds = <<>>
    THEN /\ attempt' = attempt
         /\ pc' = "GENERATE"
         /\ prompts' = prompts
    ELSE /\ attempt' = attempt
         /\ pc' = "AWAIT_APPROVAL"
         /\ prompts' = prompts + 1

AfterGeneratePromptsOnEmpty(cmds) ==
    /\ attempt' = attempt
    /\ pc' = "AWAIT_APPROVAL"
    /\ prompts' = prompts + 1

\* what run does with the list _get_ai_commands returned (lines 144-154)
AfterGenerate(cmds) ==
    IF cmds = <<>>
    THEN /\ attempt' = attempt + 1
         /\ pc' = "GENERATE"
         /\ prompts' = prompts
    ELSE /\ attempt' = attempt
         /\ pc' = "AWAIT_APPROVAL"
         /\ prompts' = prompts + 1

ExecVarsUnchanged == UNCHANGED <<cmdIdx, alive, outcome, invoked, execCalls>>

\* one pass of the loop head and _get_ai_commands whose generate_content call
\* (or response.text) raises: lines 140-147, 57-62, 74-76
GenerateErrorLogsOutput ==
    /\ pc = "GENERATE"
    /\ LoopCond(attempt)
    /\ conversation' =
         Append(Append(conversation, TaskTurn(task)), GeneratedTurn(""))
    /\ window' = Window(Append(conversation, TaskTurn(task)))
    /\ genOutcome' = "error"
    /\ ai_response' = ""
    /\ candidates' = <<>>
    /\ commands' = <<>>
    /\ genRequests' = genRequests + 1
    /\ genFailures' = genFailures + 1
    /\ AfterGenerate(commands')
    /\ ExecVarsUnchanged
    /\ UNCHANGED <<initial_task, task, approval, success, feedback, printed, redos>>

GenerateError ==
    /\ pc = "GENERATE"
    /\ LoopCond(attempt)
    /\ conversation' = Append(conversation, TaskTurn(task))
    /\ window' = Window(conversation')
    /\ genOutcome' = "error"
    /\ ai_response' = ""
    /\ candidates' = <<>>
    /\ commands' = <<>>
    /\ genRequests' = genRequests + 1
    /\ genFailures' = genFailures + 1
    /\ AfterGenerate(commands')
    /\ ExecVarsUnchanged
    /\ UNCHANGED <<initial_task, task, approval, success, feedback, printed, redos>>

GenerateOkTruncating ==
    /\ pc = "GENERATE"
    /\ LoopCond(attempt)
    /\ \E text \in RawTexts :
        /\ window' = Window(Append(conversation, TaskTurn(task)))
        /\ ai_response' = text
        /\ candidates' = ParseResponse(text)
        /\ conversation' = Append(window', GeneratedTurn(text))
        /\ commands' = _sanitize_commands(candidates')
    /\ genOutcome' = "ok"
    /\ genRequests' = genRequests + 1
    /\ genFailures' = genFailures
    /\ AfterGenerate(commands')
    /\ ExecVarsUnchanged
    /\ UNCHANGED <<initial_task, task, approval, success, feedback, printed, redos>>

\* one pass of the loop head and _get_ai_commands whose call returns text:
\* lines 140-154, 57-72
GenerateOk ==
    /\ pc = "GENERATE"
    /\ LoopCond(attempt)
    /\ \E text \in RawTexts :
        /\ window' = Window(Append(conversation, TaskTurn(task)))
        /\ ai_response' = text
        /\ candidates' = ParseResponse(text)
        /\ conversation' =
             Append(Append(conversation, TaskTurn(task)), GeneratedTurn(text))
        /\ commands' = _sanitize_commands(candidates')
    /\ genOutcome' = "ok"
    /\ genRequests' = genRequests + 1
    /\ genFailures' = genFailures
    /\ AfterGenerate(commands')
    /\ ExecVarsUnchanged
    /\ UNCHANGED <<initial_task, task, approval, success, feedback, printed, redos>>

\* the loop condition fails: line 173
MaxAttempts ==
    /\ pc = "GENERATE"
    /\ ~LoopCond(attempt)
    /\ pc' = "FAILED"
    /\ printed' = Append(printed, "Maximum attempts reached. Task failed.")
    /\ ExecVarsUnchanged
    /\ UNCHANGED <<initial_task, task, attempt, conversation, window, genOutcome,
                   ai_response, candidates, commands, approval, success,
                   feedback, genRequests, genFailures, prompts, redos>>

ApprovalBranchRedoOnOther(a) ==
    IF a = "y" THEN "execute" ELSE "redo"

ApprovalBranchExecuteUnlessRedo(a) ==
    IF a = "r" THEN "redo" ELSE "execute"

\* the if / elif / else of lines 156-171
ApprovalBranch(a) ==
    IF a = "y" THEN "execute" ELSE IF a = "r" THEN "redo" ELSE "cancel"

\* the call of _execute_commands (lines 80-84): an empty list returns at once
EnterExecute ==
    /\ execCalls' = execCalls + 1
    /\ invoked' = <<>>
    /\ outcome' = "none"
    /\ alive' = alive
    /\ IF commands = <<>>
       THEN cmdIdx' = 0 /\ pc' = "AWAIT_OUTCOME"
       ELSE cmdIdx' = 1 /\ pc' = "EXECUTE"

RedoAttemptIncrement(a) == a + 1

\* continue of line 168: the attempt number the loop goes on with
RedoAttempt(a) == a

\* the approval prompt answered: lines 154-157, 167-171
Approve ==
    /\ pc = "AWAIT_APPROVAL"
    /\ \E typed \in ApprovalInputs :
        /\ approval' = Lower(typed)
        /\ LET branch == ApprovalBranch(approval')
           IN  \/ /\ branch = "execute"
                  /\ EnterExecute
                  /\ UNCHANGED <<attempt, printed, redos>>
               \/ /\ branch = "redo"
                  /\ redos < MaxRedo
                  /\ redos' = redos + 1
                  /\ attempt' = RedoAttempt(attempt)
                  /\ pc' = "GENERATE"
                  /\ ExecVarsUnchanged
                  /\ UNCHANGED printed
               \/ /\ branch = "cancel"
                  /\ printed' = Append(printed, "Execution canceled")
                  /\ pc' = "DONE"
                  /\ ExecVarsUnchanged
                  /\ UNCHANGED <<attempt, redos>>
    /\ UNCHANGED <<initial_task, task, conversation, window, genOutcome,
                   ai_response, candidates, commands, success, feedback,
                   genRequests, genFailures, prompts>>

-----------------------------------------------------------------------------
(* AIAgent._execute_commands: the for loop of lines 84-114 *)

NextCmdAbortOnFailure(result) ==
    IF result \in {"completed"} THEN cmdIdx + 1 ELSE Len(commands) + 1

\* where the for loop goes after a command ended with result: every except
\* clause (lines 111-114) falls through to the next iteration
NextCmd(result) == cmdIdx + 1

AliveAfterNoKill(result) ==
    IF result = "timeout" THEN alive ELSE alive \ {cmdIdx}

\* the children alive when subprocess.run returns or raises: the child has
\* exited, or run killed it and waited for it (timeout=300, line 100)
AliveAfter(result) == alive \ {cmdIdx}

\* the loop's position after the command at cmdIdx ended with result
AfterCommand(result) ==
    /\ outcome' = result
    /\ cmdIdx' = NextCmd(result)
    /\ pc' = IF cmdIdx' > Len(commands) THEN "AWAIT_OUTCOME" ELSE "EXECUTE"

RunVarsUnchanged ==
    UNCHANGED <<initial_task, task, attempt, conversation, window, genOutcome,
                ai_response, candidates, commands, approval, success, feedback,
                printed, genRequests, genFailures, prompts, execCalls, redos>>

\* subprocess.run is called for the next command and starts its child
\* (lines 86-101)
StartCommand ==
    /\ pc = "EXECUTE"
    /\ cmdIdx <= Len(commands)
    /\ invoked' = Append(invoked, commands[cmdIdx])
    /\ alive' = alive \cup {cmdIdx}
    /\ pc' = "RUNNING"
    /\ UNCHANGED <<cmdIdx, outcome>>
    /\ RunVarsUnchanged

\* subprocess.run is called for the next command and fails before a child
\* exists (e.g. the interpreter is missing): lines 92-101, 113-114
StartCommandFails ==
    /\ pc = "EXECUTE"
    /\ cmdIdx <= Len(commands)
    /\ invoked' = Append(invoked, commands[cmdIdx])
    /\ alive' = alive
    /\ AfterCommand("crashed")
    /\ RunVarsUnchanged

\* subprocess.run returns or raises while the child runs: lines 92-114
FinishCommand ==
    /\ pc = "RUNNING"
    /\ \E result \in RunOutcomes :
        /\ alive' = AliveAfter(result)
        /\ AfterCommand(result)
    /\ UNCHANGED invoked
    /\ RunVarsUnchanged

-----------------------------------------------------------------------------
(* AIAgent.run after _execute_commands returned *)

AskOutcomeNoReturn ==
    /\ pc = "AWAIT_OUTCOME"
    /\ \E typed \in SuccessInputs :
        /\ success' = Lower(typed)
        /\ IF success' = "y"
           THEN /\ printed' = Append(printed, "TASK COMPLETED SUCCESSFULLY!")
                /\ pc' = "GENERATE"
           ELSE /\ printed' = printed
                /\ pc' = "AWAIT_FEEDBACK"
    /\ cmdIdx' = 0
    /\ outcome' = "none"
    /\ invoked' = <<>>
    /\ UNCHANGED <<alive, execCalls>>
    /\ UNCHANGED <<initial_task, task, attempt, conversation, window, genOutcome,
                   ai_response, candidates, commands, approval, feedback,
                   genRequests, genFailures, prompts, redos>>

\* _execute_commands has returned (its locals are gone) and the outcome
\* prompt is answered: lines 159-164
AskOutcome ==
    /\ pc = "AWAIT_OUTCOME"
    /\ \E typed \in SuccessInputs :
        /\ success' = Lower(typed)
        /\ IF success' = "y"
           THEN /\ printed' = Append(printed, "TASK COMPLETED SUCCESSFULLY!")
                /\ pc' = "DONE"
           ELSE /\ printed' = printed
                /\ pc' = "AWAIT_FEEDBACK"
    /\ cmdIdx' = 0
    /\ outcome' = "none"
    /\ invoked' = <<>>
    /\ UNCHANGED <<alive, execCalls>>
    /\ UNCHANGED <<initial_task, task, attempt, conversation, window, genOutcome,
                   ai_response, candidates, commands, approval, feedback,
                   genRequests, genFailures, prompts, redos>>

\* the feedback prompt answered: lines 164-166
AskFeedback ==
    /\ pc = "AWAIT_FEEDBACK"
    /\ \E typed \in Feedbacks :
        /\ feedback' = typed
        /\ task' = FoldTask(typed, initial_task)
    /\ attempt' = attempt + 1
    /\ pc' = "GENERATE"
    /\ ExecVarsUnchanged
    /\ UNCHANGED <<initial_task, conversation, window, genOutcome, ai_response,
                   candidates, commands, approval, success, printed,
                   genRequests, genFailures, prompts, redos>>

Next ==
    \/ GenerateError
    \/ GenerateOk
    \/ MaxAttempts
    \/ Approve
    \/ StartCommand
    \/ StartCommandFails
    \/ FinishCommand
    \/ AskOutcome
    \/ AskFeedback

Spec == Init /\ [][Next]_vars

\* The run with its environment answering: the service returns or raises,
\* every child exits or is killed at the timeout of line 100, and the human
\* answers each prompt, so a step that is possible is eventually taken.
\* Termination does not depend on the task's text: one task is followed.
InitFair == Init /\ initial_task = "list files"

SpecFair == InitFair /\ [][Next]_vars /\ WF_vars(Next)

-----------------------------------------------------------------------------
(* _sanitize_commands alone, on enumerated and sample command lists *)

\* the pieces the enumerated commands are built from: a denylisted word, the
\* comment marker, and a blank followed by a harmless character
SanitizeTokens == {"rm", "#", " x"}

SampleCmdLists ==
    {<<"ls -la  # list files", "rm -rf /  ", "echo hello">>,
     <<"ls # rm">>,
     <<"echo hello  # then rm -rf /", "echo bye">>,
     <<"echo \\#x">>,
     <<"echo a # b # c", "ls">>,
     <<"  ", "# only a comment", "format c:", "cat a >: b">>}

CmdLists ==
    SeqsUpTo(StringsUpTo(SanitizeTokens, MaxCmdLen), MaxCmds)
        \cup SampleCmdLists

\* the variables a specification of one function leaves alone
IdleRun ==
    /\ initial_task = ""
    /\ task = ""
    /\ attempt = 1
    /\ conversation = <<system_prompt>>
    /\ window = <<>>
    /\ genOutcome = "none"
    /\ approval = ""
    /\ success = ""
    /\ feedback = ""
    /\ cmdIdx = 0
    /\ alive = {}
    /\ outcome = "none"
    /\ invoked = <<>>
    /\ printed = <<>>
    /\ genRequests = 0
    /\ genFailures = 0
    /\ prompts = 0
    /\ execCalls = 0
    /\ redos = 0

IdleRunUnchanged ==
    UNCHANGED <<initial_task, task, attempt, conversation, window, genOutcome,
                approval, success, feedback, cmdIdx, alive, outcome, invoked,
                printed, genRequests, genFailures, prompts, execCalls, redos>>

InitSanitize ==
    /\ pc = "SANITIZE"
    /\ candidates \in CmdLists
    /\ ai_response = ""
    /\ commands = <<>>
    /\ IdleRun

\* a call of _sanitize_commands(candidates): lines 37-53
SanitizeCall ==
    /\ pc = "SANITIZE"
    /\ commands' = _sanitize_commands(candidates)
    /\ pc' = "SANITIZED"
    /\ UNCHANGED <<ai_response, candidates>>
    /\ IdleRunUnchanged

SpecSanitize == InitSanitize /\ [][SanitizeCall]_vars

-----------------------------------------------------------------------------
(* The parsing loop and the sanitizer after it, on enumerated and sample texts *)

ParseAlphabet == {"a", "#", "/", "*", " ", "\n"}

SampleTexts ==
    {"1. echo foo\n# a comment\necho bar",
     "- ls -la\n\n  // c\n/* x */\nrm -rf /\n",
     "echo foo\necho bar"}

ParseInputs == StringsUpTo(ParseAlphabet, MaxRawLen) \cup SampleTexts \cup RawTexts

InitParse ==
    /\ pc = "PARSE"
    /\ ai_response \in ParseInputs
    /\ candidates = <<>>
    /\ commands = <<>>
    /\ IdleRun

ParseCallUnfiltered ==
    /\ pc = "PARSE"
    /\ candidates' = SplitLines(ai_response)
    /\ commands' = candidates'
    /\ pc' = "PARSED"
    /\ UNCHANGED ai_response
    /\ IdleRunUnchanged

\* lines 64-68 and 72 of _get_ai_commands on the text ai_response
ParseCall ==
    /\ pc = "PARSE"
    /\ candidates' = ParseResponse(ai_response)
    /\ commands' = _sanitize_commands(candidates')
    /\ pc' = "PARSED"
    /\ UNCHANGED ai_response
    /\ IdleRunUnchanged

SpecParse == InitParse /\ [][ParseCall]_vars

-----------------------------------------------------------------------------
(* Properties *)

\* bc in c for some denylisted bc
HasDenylisted(c) == \E bc \in blocked_commands : Contains(c, bc)

\* the elements of a sequence
Range(q) == {q[i] : i \in 1..Len(q)}

Terminal == {"DONE", "FAILED"}

\* a step that makes a generation request
GenerationStep == genRequests' = genRequests + 1

\* a step that calls _execute_commands
ExecuteStep == execCalls' = execCalls + 1

\* C1: a generation request is made only while attempt is 1, 2 or 3, and
\* _execute_commands is called at most 3 times in a run.
C1_AttemptBudget ==
    [][/\ GenerationStep => attempt \in {1, 2, 3}
       /\ execCalls' <= 3
       /\ attempt' \in 1..4]_vars

\* C1 witness: a run that executed three plans and exhausted the budget.
C1_Witness == pc = "FAILED" /\ execCalls = 3 /\ genRequests >= 3

\* C2: _execute_commands is called only by the step that reads an approving
\* answer to the plan just presented, with that plan, which is the sanitizer's
\* output for the latest generation: non-empty, each command non-empty and free
\* of denylisted substrings; every command handed to subprocess.run is one of
\* them.
C2_ExecuteOnlyApprovedSanitized ==
    [][/\ ExecuteStep =>
            /\ pc = "AWAIT_APPROVAL"
            /\ approval' = "y"
            /\ commands' = commands
            /\ commands # <<>>
            /\ conversation[Len(conversation)] = GeneratedTurn(ai_response)
            /\ commands = _sanitize_commands(ParseResponse(ai_response))
            /\ \A c \in Range(commands) : c # "" /\ ~HasDenylisted(c)
       /\ execCalls' # execCalls => ExecuteStep
       /\ invoked' # invoked /\ invoked' # <<>> =>
            /\ approval = "y"
            /\ invoked' = Append(invoked, commands[Len(invoked) + 1])
            /\ ~HasDenylisted(invoked'[Len(invoked')])
            /\ invoked'[Len(invoked')] # ""]_vars

\* C2 witness: a command of an approved plan is running, and the sanitizer had
\* dropped a candidate of that plan.
C2_Witness ==
    /\ pc = "RUNNING"
    /\ approval = "y"
    /\ Len(commands) < Len(candidates)
    /\ invoked # <<>>

\* C3: a redo answer leaves attempt and task unchanged and executes nothing;
\* the loop goes on to a generation request (attempt still within the budget),
\* and a generation request appends the turn of the current task.
C3_RedoIsFree ==
    [][/\ (pc = "AWAIT_APPROVAL" /\ approval' = "r") =>
            /\ attempt' = attempt
            /\ task' = task
            /\ execCalls' = execCalls
            /\ invoked' = invoked
            /\ alive' = alive
            /\ pc' = "GENERATE"
            /\ attempt' \in {1, 2, 3}
       /\ (GenerationStep /\ approval = "r") =>
            /\ conversation'[Len(conversation) + 1] = "User task: " \o task
            /\ task' = task]_vars

\* C3 witness: the request after a redo was made with the attempt number 1
\* still in force.
C3_Witness ==
    /\ redos = 1
    /\ approval = "r"
    /\ genRequests = 2
    /\ attempt = 1
    /\ pc = "AWAIT_APPROVAL"

\* C4: answering the feedback prompt increments attempt by one and sets task to
\* "Previous failure: " + feedback + ". Original task: " + initial_task; task
\* is always initial_task or that form with the latest feedback.
C4_FeedbackFold ==
    [][LET folded == "Previous failure: " \o feedback'
                        \o ". Original task: " \o initial_task
       IN  /\ pc = "AWAIT_FEEDBACK" =>
                attempt' = attempt + 1 /\ task' = folded
           /\ task' = initial_task \/ task' = folded
           /\ initial_task' = initial_task]_vars

\* C4 witness: two failed outcomes have been folded, one after the other.
C4_Witness ==
    /\ attempt = 3
    /\ execCalls = 2
    /\ pc = "GENERATE"
    /\ feedback = ""
    /\ task = "Previous failure: . Original task: list files"

\* C5: a failing generation call is contained: the request returns no command,
\* costs one attempt and the loop goes on; while every request of the run has
\* failed nothing is prompted or executed, and the run is FAILED only after
\* exactly 3 requests, after which no further request is made.
C5_ServiceFailureContained ==
    /\ [](genFailures = genRequests =>
            /\ attempt = 1 + genRequests
            /\ genRequests <= 3
            /\ prompts = 0
            /\ execCalls = 0
            /\ invoked = <<>>
            /\ pc \in {"GENERATE", "FAILED"}
            /\ pc = "FAILED" => genRequests = 3
            /\ genRequests = 3 => attempt > 3)
    /\ [][genFailures' # genFailures =>
            /\ commands' = <<>>
            /\ attempt' = attempt + 1
            /\ pc' = "GENERATE"
            /\ conversation' = Append(conversation, "User task: " \o task)
            /\ UNCHANGED <<prompts, execCalls, printed>>]_vars

\* C5 witness: the service failed on all three requests and the run is FAILED.
C5_Witness ==
    /\ pc = "FAILED"
    /\ genRequests = 3
    /\ genFailures = 3
    /\ printed = <<"Maximum attempts reached. Task failed.">>

\* the indices of cmds the sanitizer keeps when the denylist is matched against
\* the command as given
KeptAsGiven(cmds) ==
    {i \in 1..Len(cmds) : ~HasDenylisted(cmds[i]) /\ CleanCmd(cmds[i]) # ""}

\* the indices of cmds the sanitizer keeps when the denylist is matched against
\* the command without its trailing comment and surrounding whitespace
KeptCleaned(cmds) ==
    {i \in 1..Len(cmds) :
        ~HasDenylisted(CleanCmd(cmds[i])) /\ CleanCmd(cmds[i]) # ""}

\* out holds, in order, the cleaned commands of cmds at the indices kept
IsSelection(out, cmds, kept) ==
    /\ Len(out) = Cardinality(kept)
    /\ \A i \in kept :
         out[Cardinality({j \in kept : j <= i})] = CleanCmd(cmds[i])

\* C6 as stated: every command containing a denylisted substring is excluded,
\* every other command not reducible to empty is retained, in order.
C6_AsStated ==
    pc = "SANITIZED" => IsSelection(commands, candidates, KeptAsGiven(candidates))

\* C6 amended: every command whose text without trailing comment and
\* surrounding whitespace contains a denylisted substring is excluded, every
\* other command whose such text is non-empty is retained as that text, in
\* order.
C6_SanitizeFilters ==
    pc = "SANITIZED" =>
        /\ IsSelection(commands, candidates, KeptCleaned(candidates))
        /\ \A c \in Range(commands) : ~HasDenylisted(c)

\* C6 witness: the example list has been sanitized.
C6_Witness ==
    /\ pc = "SANITIZED"
    /\ candidates = <<"ls -la  # list files", "rm -rf /  ", "echo hello">>
    /\ commands = <<"ls -la", "echo hello">>

\* the conversation as it was when the latest generation request was made
ConversationAtRequest ==
    IF genOutcome = "ok"
    THEN SubSeq(conversation, 1, Len(conversation) - 1)
    ELSE conversation

\* C7: the window of every generation request has at most 5 entries and is the
\* last min(5, length) turns of the conversation, in order.
C7_WindowBounded ==
    genRequests > 0 =>
        LET conv == ConversationAtRequest
            n    == Len(window)
        IN  /\ n <= 5
            /\ n = Min(5, Len(conv))
            /\ \A i \in 1..n : window[i] = conv[Len(conv) - n + i]

\* C7 witness: a request made after a redo with more than 5 turns accumulated.
C7_Witness ==
    /\ redos >= 1
    /\ Len(ConversationAtRequest) > 5
    /\ Len(window) = 5
    /\ window[5] = "User task: " \o task

\* a line that is a pure comment
PureComment(line) == IsCommentLine(Strip(line))

\* C8: the parser emits one candidate per line that is neither a pure comment
\* nor empty after stripping, in order, without leading list markers; the
\* example text parses to <<"echo foo", "echo bar">>.
C8_ParserDropsComments ==
    pc = "PARSED" =>
        LET lines == SplitLines(ai_response)
            emit  == {i \in 1..Len(lines) :
                        ~PureComment(lines[i]) /\ StripLeading(lines[i]) # ""}
        IN  /\ Len(candidates) = Cardinality(emit)
            /\ ai_response = "1. echo foo\n# a comment\necho bar" =>
                 candidates = <<"echo foo", "echo bar">>

\* C9: _execute_commands hands every command of the plan to subprocess.run
\* exactly once, in plan order, whatever the earlier commands' results, and at
\* most the current command's child is alive: none when the next one starts.
C9_ExecuteAllInOrder ==
    /\ pc = "EXECUTE" =>
         /\ cmdIdx \in 1..Len(commands)
         /\ invoked = SubSeq(commands, 1, cmdIdx - 1)
         /\ alive = {}
    /\ pc = "RUNNING" =>
         /\ invoked = SubSeq(commands, 1, cmdIdx)
         /\ alive = {cmdIdx}
    /\ pc = "AWAIT_OUTCOME" => invoked = commands /\ commands # <<>>
    /\ pc \notin {"EXECUTE", "RUNNING"} => alive = {}

\* C9 witness: the second command runs after the first one timed out.
C9_Witness ==
    /\ pc = "RUNNING"
    /\ cmdIdx = 2
    /\ outcome = "timeout"
    /\ alive = {2}
    /\ invoked = SubSeq(commands, 1, 2)

\* C10: an approval answer other than 'y' or 'r' ends the run as cancelled with
\* nothing executed, attempt unchanged and no budget-exhausted message; once
\* the run is DONE or FAILED nothing changes any more.
C10_CancelAndTerminal ==
    [][/\ (pc = "AWAIT_APPROVAL" /\ approval' \notin {"y", "r"}) =>
            /\ pc' = "DONE"
            /\ printed' = Append(printed, "Execution canceled")
            /\ attempt' = attempt
            /\ execCalls' = execCalls
            /\ invoked' = invoked
            /\ genRequests' = genRequests
            /\ prompts' = prompts
       /\ pc \notin Terminal
       /\ Len(printed') <= 1]_vars

\* C10 witness: the answer "yes" (neither 'y' nor 'r') cancelled the run.
C10_Witness ==
    /\ pc = "DONE"
    /\ approval = "yes"
    /\ printed = <<"Execution canceled">>
    /\ execCalls = 0

\* C11: a 'y' answer to the outcome prompt ends the run in DONE with the
\* success message and attempt unchanged (1, 2 or 3), and nothing follows DONE:
\* after 'no' on attempts 1 and 2 and 'yes' on attempt 3 the run is DONE with
\* attempt = 3 and was never FAILED.
C11_SuccessEndsRun ==
    [][/\ (pc = "AWAIT_OUTCOME" /\ success' = "y") =>
            /\ pc' = "DONE"
            /\ attempt' = attempt
            /\ attempt \in {1, 2, 3}
            /\ printed = <<>>
            /\ printed' = <<"TASK COMPLETED SUCCESSFULLY!">>
       /\ pc # "DONE"
       /\ pc # "FAILED"]_vars

\* C11 witness: two failed outcomes, then success on the third attempt.
C11_Witness ==
    /\ pc = "DONE"
    /\ success = "y"
    /\ attempt = 3
    /\ execCalls = 3
    /\ StartsWith(task, "Previous failure: ")
    /\ printed = <<"TASK COMPLETED SUCCESSFULLY!">>

\* C12: sanitizing the sanitizer's output gives that output again.
C12_SanitizeIdempotent ==
    pc = "SANITIZED" => _sanitize_commands(commands) = commands

\* C12 witness: a list from which the first pass removed a comment and a
\* denylisted command.
C12_Witness ==
    /\ pc = "SANITIZED"
    /\ candidates = <<"ls -la  # list files", "rm -rf /  ", "echo hello">>
    /\ commands # candidates
    /\ commands # <<>>

\* C13: no command returned by parsing followed by sanitizing is empty after
\* trimming whitespace.
C13_NoEmptyCommand ==
    pc = "PARSED" => \A c \in Range(commands) : Strip(c) # ""

\* C13 witness: a text with an empty line and blank-led lines has been parsed
\* and sanitized.
C13_Witness ==
    /\ pc = "PARSED"
    /\ ai_response = "- ls -la\n\n  // c\n/* x */\nrm -rf /\n"
    /\ Len(commands) = 3

\* q is p or p with entries appended
IsPrefix(p, q) == Len(p) <= Len(q) /\ SubSeq(q, 1, Len(p)) = p

\* C14: the conversation's first entry is always the system instruction, and
\* every step leaves the turns already present unchanged as a prefix of the
\* new conversation.
C14_ConversationAppendOnly ==
    /\ [](Len(conversation) >= 1 /\ conversation[1] = system_prompt)
    /\ [][IsPrefix(conversation, conversation')]_vars

\* C14 witness: turns beyond the window have accumulated behind the system
\* instruction.
C14_Witness ==
    /\ Len(conversation) >= 7
    /\ conversation[1] = system_prompt
    /\ redos >= 1

\* a turn appended by line 57
IsTaskTurn(t) == StartsWith(t, "User task: ")

\* a turn appended by line 70
IsGeneratedTurn(t) == StartsWith(t, "Generated commands:\n")

\* C15 as stated: after the system instruction the entries are task, output,
\* task, output, ...
C15_AsStated ==
    \A i \in 2..Len(conversation) :
        IF i % 2 = 0 THEN IsTaskTurn(conversation[i])
                     ELSE IsGeneratedTurn(conversation[i])

\* C15, what the code keeps instead: after the system instruction every entry
\* is a task statement or a generation output, the first is a task statement
\* and every output directly follows a task statement (its own request's); a
\* task statement whose request failed has no output after it.
C15_OutputFollowsTask ==
    /\ \A i \in 2..Len(conversation) :
         /\ IsTaskTurn(conversation[i]) # IsGeneratedTurn(conversation[i])
         /\ IsGeneratedTurn(conversation[i]) =>
              i > 2 /\ IsTaskTurn(conversation[i - 1])
    /\ genOutcome = "ok" => IsGeneratedTurn(conversation[Len(conversation)])
    /\ genOutcome = "error" => IsTaskTurn(conversation[Len(conversation)])

\* a run with a failed request, a successful one and a redo: two task
\* statements in a row
C15_TwoTasksInARow ==
    /\ Len(conversation) >= 5
    /\ IsTaskTurn(conversation[2])
    /\ IsTaskTurn(conversation[3])
    /\ IsGeneratedTurn(conversation[4])
    /\ redos >= 1

\* C16: a generation step that returns no command increments attempt by one,
\* leaves task unchanged, prompts nothing and executes nothing, and leaves the
\* loop at its head; from there the run makes a request while attempt <= 3 and
\* otherwise ends FAILED.
C16_EmptyPlanCostsAttempt ==
    [][/\ (GenerationStep /\ commands' = <<>>) =>
            /\ attempt' = attempt + 1
            /\ task' = task
            /\ prompts' = prompts
            /\ execCalls' = execCalls
            /\ invoked' = invoked
            /\ printed' = printed
            /\ pc' = "GENERATE"
       /\ (GenerationStep /\ commands' # <<>>) => pc' = "AWAIT_APPROVAL"
       /\ pc = "GENERATE" =>
            IF attempt <= 3 THEN GenerationStep
            ELSE pc' = "FAILED" /\ genRequests' = genRequests]_vars

\* C16 witness: after a redo the service answered, every candidate was blocked
\* and the attempt was consumed.
C16_Witness ==
    /\ approval = "r"
    /\ genRequests = 2
    /\ genOutcome = "ok"
    /\ candidates # <<>>
    /\ commands = <<>>
    /\ attempt = 2
    /\ pc = "GENERATE"

\* the positions of '#' in cmd that no backslash precedes
UnescapedHashes(cmd) ==
    {i \in 1..Len(cmd) :
        Char(cmd, i) = "#" /\ (i = 1 \/ Char(cmd, i - 1) # "\\")}

\* cmd cut at its first unescaped '#', trimmed
CleanUnescaped(cmd) ==
    LET hs == UnescapedHashes(cmd)
    IN  IF hs = {} THEN Strip(cmd)
        ELSE Strip(SubSeq(cmd, 1, (CHOOSE i \in hs : \A j \in hs : i <= j) - 1))

\* C17: the sanitizer cuts a command at its first unescaped '#' only: an
\* escaped '#' does not start a comment and the text after it is kept, so
\* <<"echo \#x">> is returned unchanged.
C17_EscapedHashKept ==
    pc = "SANITIZED" =>
        /\ \A i \in 1..Len(candidates) :
             LET kept == CleanUnescaped(candidates[i])
             IN  kept # "" /\ ~HasDenylisted(kept) => kept \in Range(commands)
        /\ candidates = <<"echo \\#x">> => commands = <<"echo \\#x">>

\* C18: with redo chosen only finitely often (at most MaxRedo times here) every
\* run reaches DONE or FAILED, and at any time it has made at most 3 requests
\* plus one per redo; a redo itself brings the loop back to a request with the
\* attempt number unchanged, so nothing bounds a run that keeps choosing it.
C18_Terminates ==
    /\ <>(pc \in Terminal)
    /\ [](genRequests <= 3 + redos)
    /\ [][(pc = "AWAIT_APPROVAL" /\ approval' = "r") =>
            /\ redos' = redos + 1
            /\ pc' = "GENERATE"
            /\ attempt' = attempt
            /\ attempt <= 3]_vars

\* C18 witness: a run that used every redo and all three attempts has ended.
C18_Witness ==
    /\ pc \in Terminal
    /\ redos = MaxRedo
    /\ genRequests = 3 + redos


\* ---------------------------------------------------------------------
\* requests made before the last one that raised, and that returned text
PrevFailures == genFailures - (IF genOutcome = "error" THEN 1 ELSE 0)

PrevSuccesses == (genRequests - 1) - PrevFailures

\* C19: the system instruction is in the window sent to the generation
\* service exactly when the conversation holds at most 5 turns at request
\* time (then it is the window's first turn).  The conversation then holds
\* the system instruction, one task turn per request and one output turn
\* per earlier success, so the third request after two successes (after a
\* failed outcome or a redo) is sent without the system instruction, and
\* a request whose predecessors all raised is sent with it.
C19_SystemPromptInWindow ==
    genRequests > 0 =>
        LET conv == ConversationAtRequest
            sent == system_prompt \in Range(window)
        IN  /\ sent <=> Len(conv) <= 5
            /\ sent => window[1] = system_prompt
            /\ Len(conv) = 1 + genRequests + PrevSuccesses
            /\ (genRequests = 3 /\ PrevSuccesses = 2) => ~sent
            /\ PrevSuccesses = 0 => (genRequests <= 3 /\ sent)

C19_Witness ==
    /\ genRequests = 3
    /\ PrevSuccesses = 2
    /\ redos = 1
    /\ Len(window) = 5
    /\ system_prompt \notin Range(window)

C19_WitnessAllFailed ==
    /\ genRequests = 3
    /\ genFailures = 3
    /\ window[1] = system_prompt

\* ---------------------------------------------------------------------
\* C20: every generation request, also one that follows a redo, appends
\* one task turn, and one generated-output turn after it exactly when the
\* call returned and was parsed; after k requests of which s succeeded the
\* conversation holds 1 + k + s turns; no other step (approval, execution,
\* outcome, feedback) changes the conversation.
C20_ConversationGrowth ==
    /\ [](Len(conversation) = 1 + genRequests + (genRequests - genFailures))
    /\ [][/\ GenerationStep =>
              /\ (genOutcome' = "ok") <=> (genFailures' = genFailures)
              /\ genOutcome' = "ok" =>
                    conversation' =
                      Append(Append(conversation, TaskTurn(task)),
                             GeneratedTurn(ai_response'))
              /\ genOutcome' # "ok" =>
                    conversation' = Append(conversation, TaskTurn(task))
          /\ ~GenerationStep => conversation' = conversation]_vars

C20_Witness ==
    /\ pc = "DONE"
    /\ genRequests = 3
    /\ genFailures = 1
    /\ redos >= 1
    /\ execCalls >= 1
    /\ Len(conversation) = 6
=============================================================================
